---- MODULE Spec2Model ----
(***************************************************************************)
(* State-machine model of src/handler.py: the two-phase stream processor   *)
(* (preload_history, then consume_and_process), the per-user bounded       *)
(* history (user_history), the mention trigger with its concurrent         *)
(* call_predict fan-out, the aggregation and the publish to RESULT_TOPIC.  *)
(*                                                                         *)
(* Strings are modelled as tuples of one-character strings so that the     *)
(* substring test, the regular-expression strip and str() are computed.    *)
(* Two program constants are abbreviated to keep the model finite:         *)
(* BOT_MENTION is the two-character marker "@b" and the watched chat id    *)
(* is -47 (the source value does not fit TLC's integers).                  *)
(***************************************************************************)
EXTENDS Integers, Sequences, FiniteSets, TLC

VARIABLES
    pc,            \* position of main(): see PcValues
    conns,         \* started and not yet stopped Kafka clients
    now,           \* the wall clock read by is_same_local_day
    user_history,  \* user id -> deque(maxlen=10) of texts; DOMAIN = existing keys
    admitted,      \* history: user id -> every text ever appended for that user
    consumed,      \* number of records processed so far (both phases)
    batch_q,       \* number of records of the current getmany() batch not yet processed
    last,          \* history: the record processed last, when and in which phase
    preload_done,  \* history: preload_history left its loop through `break`
    cur,           \* locals of the running trigger: user_id, batch, clean_batch
    calls,         \* the gather() of the running trigger: one entry per call_predict
    orphans,       \* call_predict tasks of abandoned triggers that are still running
    outcome,       \* history: trigger id -> "running" | "abandoned" | "gathered"
    sent,          \* payloads handed to prod.send_and_wait, in order
    acked,         \* how many of them were acknowledged
    strip_in,      \* input of the mention strip (pure-function specification)
    strip_out      \* its result, or PyNone before it is applied

vars == <<pc, conns, now, user_history, admitted, consumed, batch_q, last,
          preload_done, cur, calls, orphans, outcome, sent, acked, strip_in, strip_out>>

(***************************************************************************)
(* Bounds of the model.                                                    *)
(***************************************************************************)
MaxRecords == 2        \* records consumed in one run of Spec
MaxTrigRecords == 3    \* records consumed in one run of SpecTrig
MaxBatch == 2          \* records in one getmany() batch
MaxNow == 5            \* last clock value
MaxWindowRecords == 11 \* records consumed in one run of SpecWindow
MaxLen == 5            \* longest text of SpecStrip
MaxSnapRecords == 11   \* records consumed in one run of SpecSnap
\* records read by a run of the fan-out
MaxFanRecords == 12
\* records read by a run of the backfill alone
MaxPreloadRecords == 2

(***************************************************************************)
(* Configuration (handler.py lines 19-30).                                 *)
(***************************************************************************)
BOT_MENTION == <<"@", "b">>
WATCH_CHAT_IDS == {-47}
WindowCapacity == 10

Whitespace == {" ", "\n"}
Alphabet == {"@", "b", "x"} \cup Whitespace

\* Python's None where a string may stand (no text is equal to it: texts are
\* tuples of single characters)
PyNone == <<"<None>">>

(***************************************************************************)
(* Strings.                                                                *)
(***************************************************************************)
\* s[i..] for 1-based i
DropFirst(s, n) == SubSeq(s, n + 1, Len(s))

\* p occurs in s starting at 1-based position i
OccursAt(p, s, i) ==
    /\ i >= 1
    /\ i + Len(p) - 1 <= Len(s)
    /\ \A j \in 1..Len(p) : s[i + j - 1] = p[j]

\* Python `p in s` for strings
Contains(p, s) == \E i \in 1..(Len(s) + 1) : OccursAt(p, s, i)

\* the longest run of whitespace at the start of s is removed (regex \s*)
RECURSIVE SkipWhitespace(_)
SkipWhitespace(s) ==
    IF s # <<>> /\ Head(s) \in Whitespace THEN SkipWhitespace(Tail(s)) ELSE s

\* faulty variant: the pattern is not anchored at the start of the text
StripMentionFirstAnywhere(m) ==
    IF Contains(BOT_MENTION, m)
    THEN LET i == CHOOSE k \in 1..(Len(m) + 1) :
                    /\ OccursAt(BOT_MENTION, m, k)
                    /\ \A l \in 1..(k - 1) : ~OccursAt(BOT_MENTION, m, l)
         IN SubSeq(m, 1, i - 1) \o SkipWhitespace(DropFirst(m, i - 1 + Len(BOT_MENTION)))
    ELSE m

\* re.sub(rf'^{re.escape(BOT_MENTION)}\s*', '', m): '^' without re.MULTILINE
\* matches at position 0 only, so at most one match is replaced
StripMention(m) ==
    IF OccursAt(BOT_MENTION, m, 1)
    THEN SkipWhitespace(DropFirst(m, Len(BOT_MENTION)))
    ELSE m

\* str(n) for an integer n
Digit(d) == <<"0", "1", "2", "3", "4", "5", "6", "7", "8", "9">>[d + 1]

RECURSIVE NatToStr(_)
NatToStr(n) == IF n < 10 THEN <<Digit(n)>> ELSE NatToStr(n \div 10) \o <<Digit(n % 10)>>

IntToStr(n) == IF n < 0 THEN <<"-">> \o NatToStr(-n) ELSE NatToStr(n)

(***************************************************************************)
(* JSON values and record payloads.  A JSON value is [t, i, s]: its type   *)
(* tag, its integer (for "int") and its characters (for "str").  "absent"  *)
(* stands for a key the object does not have.                              *)
(***************************************************************************)
JAbsent == [t |-> "absent", i |-> 0, s |-> <<>>]
JNull == [t |-> "null", i |-> 0, s |-> <<>>]
JList == [t |-> "list", i |-> 0, s |-> <<>>]
JInt(n) == [t |-> "int", i |-> n, s |-> <<>>]
JStr(str) == [t |-> "str", i |-> 0, s |-> str]

\* msg.value: bytes that are not UTF-8, text that is not JSON, JSON that is not
\* an object (number, string, array, null), or a JSON object
BadUtf8 == [kind |-> "badutf8", chat_id |-> JAbsent, user_id |-> JAbsent, message |-> JAbsent]
NonJson == [kind |-> "nonjson", chat_id |-> JAbsent, user_id |-> JAbsent, message |-> JAbsent]
NonObject == [kind |-> "nonobject", chat_id |-> JAbsent, user_id |-> JAbsent, message |-> JAbsent]
Obj(c, u, m) == [kind |-> "object", chat_id |-> c, user_id |-> u, message |-> m]

\* str(v) of a Python value
PyStr(v) ==
    CASE v.t = "int" -> IntToStr(v.i)
      [] v.t = "str" -> v.s
      [] v.t = "list" -> <<"[", "]">>
      [] OTHER -> <<"N", "o", "n", "e">>

\* rec = json.loads(msg.value.decode("utf-8")) under
\* except (json.JSONDecodeError, TypeError): "skip" when the handler catches,
\* "raise" when the exception is none of the two (UnicodeDecodeError)
ParseResult(value) ==
    CASE value.kind = "badutf8" -> "raise"
      [] value.kind = "nonjson" -> "skip"
      [] OTHER -> "ok"

\* rec.get(...) exists on a dict only (AttributeError otherwise)
HasGet(value) == value.kind = "object"

\* user_id = str(rec.get("user_id"))
UserIdOf(value) == PyStr(value.user_id)

\* text = rec.get("message", ""): the default stands in for an absent key only
TextOf(value) == IF value.message.t = "absent" THEN JStr(<<>>) ELSE value.message

\* `chat_id in WATCH_CHAT_IDS` hashes chat_id (TypeError for a list)
Unhashable(v) == v.t = "list"
\* faulty variant: every integer chat id is watched
InWatchAnyInt(v) == v.t = "int"

InWatch(v) == v.t = "int" /\ v.i \in WATCH_CHAT_IDS

IsInstanceStr(v) == v.t = "str"

(***************************************************************************)
(* is_same_local_day.  Time is counted in half days; the local zone is     *)
(* TzOffset units ahead of UTC.                                            *)
(***************************************************************************)
DayLen == 2
StartNow == 4
TzOffset == 1
LocalDay(t) == (t + TzOffset) \div DayLen

\* faulty variant: the two dates are compared in UTC
is_same_utc_day(ts_ms, clock) == ts_ms \div DayLen = clock \div DayLen
is_same_local_day(ts_ms, clock) == LocalDay(ts_ms) = LocalDay(clock)

\* faulty variant: a deque without maxlen
DequeAppendUnbounded(d, x) == Append(d, x)

(***************************************************************************)
(* user_history = defaultdict(lambda: deque(maxlen=10)).                   *)
(***************************************************************************)
\* faulty variant: a full deque refuses the new element
DequeAppendDropNewest(d, x) ==
    IF Len(d) >= WindowCapacity THEN d ELSE Append(d, x)

DequeAppend(d, x) ==
    IF Len(d) >= WindowCapacity THEN Append(Tail(d), x) ELSE Append(d, x)

\* the deque of u, without creating it
Window(h, u) == IF u \in DOMAIN h THEN h[u] ELSE <<>>

\* user_history[u]: __getitem__ creates the key
Touch(h, u) == [v \in DOMAIN h \cup {u} |-> Window(h, v)]

\* user_history[u].append(x)
Admit(h, u, x) ==
    [v \in DOMAIN h \cup {u} |-> IF v = u THEN DequeAppend(Window(h, u), x) ELSE h[v]]

\* history variable: the unbounded list of everything appended
Record(a, u, x) ==
    [v \in DOMAIN a \cup {u} |-> IF v = u THEN Append(Window(a, u), x) ELSE a[v]]

(***************************************************************************)
(* What one loop iteration does with a record, before any await.           *)
(***************************************************************************)
\* preload_history, lines 95-112
PreloadOutcome(m, clock) ==
    CASE ParseResult(m.value) = "raise" -> "raise"
      [] ParseResult(m.value) = "skip" -> "skip"
      [] ~HasGet(m.value) -> "raise"
      [] Unhashable(m.value.chat_id) -> "raise"
      [] /\ InWatch(m.value.chat_id)
         /\ UserIdOf(m.value) # PyNone
         /\ IsInstanceStr(TextOf(m.value))
         /\ is_same_local_day(m.timestamp, clock) -> "admit"
      [] OTHER -> "ignore"

\* consume_and_process, lines 127-138
LiveOutcome(m) ==
    CASE ParseResult(m.value) = "raise" -> "raise"
      [] ParseResult(m.value) = "skip" -> "skip"
      [] ~HasGet(m.value) -> "raise"
      [] Unhashable(m.value.chat_id) -> "raise"
      [] \/ ~InWatch(m.value.chat_id)
         \/ UserIdOf(m.value) = PyNone
         \/ ~IsInstanceStr(TextOf(m.value)) -> "filtered"
      [] OTHER -> "valid"

(***************************************************************************)
(* ScoreMaps (the JSON objects call_predict returns) and the aggregation.  *)
(* A dict is the sequence of its items <<key, value>> in insertion order.  *)
(***************************************************************************)
DictHas(d, k) == \E j \in 1..Len(d) : d[j][1] = k

\* d.get(k, default)
DictGet(d, k, default) ==
    IF DictHas(d, k) THEN d[CHOOSE j \in 1..Len(d) : d[j][1] = k][2] ELSE default

\* d[k] = v
DictSet(d, k, v) ==
    IF DictHas(d, k)
    THEN [j \in 1..Len(d) |-> IF d[j][1] = k THEN <<k, v>> ELSE d[j]]
    ELSE Append(d, <<k, v>>)

\* faulty variant: agg[k] = v
RECURSIVE AddItemsOverwrite(_, _)
AddItemsOverwrite(agg, items) ==
    IF items = <<>> THEN agg
    ELSE AddItemsOverwrite(DictSet(agg, Head(items)[1], Head(items)[2]), Tail(items))

\* for k, v in r.items(): agg[k] = agg.get(k, 0) + v
RECURSIVE AddItems(_, _)
AddItems(agg, items) ==
    IF items = <<>> THEN agg
    ELSE AddItems(DictSet(agg, Head(items)[1], DictGet(agg, Head(items)[1], 0) + Head(items)[2]),
                  Tail(items))

\* agg = {}; for r in results: ...
RECURSIVE AggregateFrom(_, _)
AggregateFrom(agg, results) ==
    IF results = <<>> THEN agg
    ELSE AggregateFrom(AddItems(agg, Head(results)), Tail(results))

\* the record handed to the producer: agg with agg["user_id"] = user_id
\* (user_id is kept apart from the numeric fields, which never use that key)
OutputRecord(results, user_id) ==
    [user_id |-> user_id, fields |-> AggregateFrom(<<>>, results)]

(***************************************************************************)
(* Inputs.                                                                 *)
(***************************************************************************)
SeqsUpTo(S, n) == UNION {[1..k -> S] : k \in 0..n}

Texts == {<<"x">>, <<"@", "b", " ", "x">>, <<"x", "@", "b">>}

WATCHED == JInt(-47)
Msg(v, ts) == [value |-> v, timestamp |-> ts]

\* records of Spec: every kind of payload; the timestamp is 3 (on the day the
\* run starts on) or 2 (on the day before)
Msgs ==
    {Msg(v, 3) : v \in {BadUtf8, NonJson, NonObject}}
    \cup {Msg(Obj(c, JInt(42), JStr(<<"@", "b", " ", "x">>)), 3) : c \in {JInt(5), JAbsent, JList}}
    \cup {Msg(Obj(WATCHED, JInt(42), JInt(1)), 3),
          Msg(Obj(WATCHED, JAbsent, JStr(<<"x">>)), 3),
          Msg(Obj(WATCHED, JInt(42), JAbsent), 3)}
    \cup {Msg(Obj(WATCHED, JInt(42), JStr(t)), ts) : t \in Texts, ts \in {2, 3}}

\* records of SpecTrig: well-formed records of one user, with and without the
\* mention, of today and of yesterday
TrigMsgs ==
    {Msg(Obj(WATCHED, JInt(42), JStr(<<"x">>)), 3)}
    \cup {Msg(Obj(WATCHED, JInt(42), JStr(<<"@", "b", " ", "x">>)), ts) : ts \in {2, 3}}

\* records of SpecWindow: well-formed same-day records of two users, one of
\* them with two different texts
WindowMsgs ==
    {Msg(Obj(WATCHED, JInt(42), JStr(t)), 3) : t \in {<<"x">>, <<"b">>}}
    \cup {Msg(Obj(WATCHED, JStr(<<"7">>), JStr(<<"x">>)), 3)}

\* records of SpecFan: same-day texts for the backfill, mentions of the day
\* before for the live phase
FanBackfillMsgs == {Msg(Obj(WATCHED, JInt(42), JStr(<<"x">>)), 3)}
FanLiveMsgs == {Msg(Obj(WATCHED, JInt(42), JStr(<<"@", "b", " ", "x">>)), 2)}

SM_A == << <<"pos", 1>>, <<"neu", 2>> >>
SM_B == << <<"pos", 3>>, <<"energy", 5>> >>
ScoreMaps == {SM_A, SM_B}

(***************************************************************************)
(* State.                                                                  *)
(***************************************************************************)
PcValues == {"init", "preload_start", "preload_getmany", "preload_batch", "preload_stop",
             "preload_stop_exc", "live_start_cons", "live_start_prod", "live_next",
             "gather", "publish", "live_stop_cons", "live_stop_prod", "done"}

\* the process lifecycle of the specification
Phase ==
    CASE pc = "init" -> "INIT"
      [] pc \in {"preload_start", "preload_getmany", "preload_batch", "preload_stop",
                 "preload_stop_exc"} -> "BACKFILL"
      [] pc = "done" -> "STOPPED"
      [] OTHER -> "LIVE"

NoLast == [msg |-> Msg(NonJson, 0), at |-> 0, phase |-> "none"]
NoCur == [user_id |-> PyNone, batch |-> <<>>, clean_batch |-> <<>>, trig |-> 0]

Pending == [st |-> "pending", r |-> <<>>]
Done(r) == [st |-> "done", r |-> r]

Init ==
    /\ pc = "init"
    /\ conns = {}
    /\ now = StartNow
    /\ user_history = <<>>
    /\ admitted = <<>>
    /\ consumed = 0
    /\ batch_q = 0
    /\ last = NoLast
    /\ preload_done = FALSE
    /\ cur = NoCur
    /\ calls = <<>>
    /\ orphans = {}
    /\ outcome = <<>>
    /\ sent = <<>>
    /\ acked = 0
    /\ strip_in = PyNone
    /\ strip_out = PyNone

stripVars == <<strip_in, strip_out>>
histVars == <<user_history, admitted>>
trigVars == <<cur, calls, orphans, outcome, sent, acked>>
readVars == <<consumed, batch_q, last, preload_done>>

(***************************************************************************)
(* main(), preload_history.                                                *)
(***************************************************************************)
\* main line 171: get_msk_connection_info returns, or raises
GetConnectionInfo ==
    /\ pc = "init"
    /\ pc' \in {"preload_start", "done"}
    /\ UNCHANGED <<conns, now, histVars, readVars, trigVars, stripVars>>

\* lines 86-87: cons.start() returns, or raises outside the try
PreloadStart ==
    /\ pc = "preload_start"
    /\ \/ pc' = "preload_getmany" /\ conns' = conns \cup {"backfill_cons"}
       \/ pc' = "done" /\ conns' = conns
    /\ UNCHANGED <<now, histVars, readVars, trigVars, stripVars>>

\* faulty variant: the loop also ends on a batch of one record
PreloadGetmanyBreaksEarly(maxrec) ==
    /\ pc = "preload_getmany"
    /\ \E n \in 0..MaxBatch :
         /\ consumed + n <= maxrec
         /\ batch_q' = n
         /\ IF n <= 1
            THEN pc' = "preload_stop" /\ preload_done' = TRUE
            ELSE pc' = "preload_batch" /\ preload_done' = preload_done
    /\ UNCHANGED <<conns, now, histVars, consumed, last, trigVars, stripVars>>

\* lines 90-92: one getmany(timeout_ms=1000) returns a batch of n records (all
\* partitions together, in the order of batch.items()); the loop ends on an
\* empty one.  The content of a record is drawn when the loop reaches it.
PreloadGetmany(maxrec) ==
    /\ pc = "preload_getmany"
    /\ \E n \in 0..MaxBatch :
         /\ consumed + n <= maxrec
         /\ batch_q' = n
         /\ IF n = 0
            THEN pc' = "preload_stop" /\ preload_done' = TRUE
            ELSE pc' = "preload_batch" /\ preload_done' = preload_done
    /\ UNCHANGED <<conns, now, histVars, consumed, last, trigVars, stripVars>>

\* getmany raises (connection lost), or the task is cancelled while it waits
PreloadGetmanyError ==
    /\ pc = "preload_getmany"
    /\ pc' = "preload_stop_exc"
    /\ UNCHANGED <<conns, now, histVars, readVars, trigVars, stripVars>>

\* lines 94-112: the loop body for the next record of the batch
PreloadRecord(M) ==
    /\ pc = "preload_batch"
    /\ batch_q > 0
    /\ \E m \in M :
         LET o == PreloadOutcome(m, now)
         IN /\ consumed' = consumed + 1
            /\ last' = [msg |-> m, at |-> now, phase |-> "preload"]
            /\ IF o = "raise"
               THEN pc' = "preload_stop_exc" /\ batch_q' = 0
               ELSE /\ batch_q' = batch_q - 1
                    /\ pc' = IF batch_q = 1 THEN "preload_getmany" ELSE "preload_batch"
            /\ IF o = "admit"
               THEN /\ user_history' = Admit(user_history, UserIdOf(m.value), TextOf(m.value).s)
                    /\ admitted' = Record(admitted, UserIdOf(m.value), TextOf(m.value).s)
               ELSE UNCHANGED histVars
    /\ UNCHANGED <<conns, now, preload_done, trigVars, stripVars>>

\* faulty variant: the finally block swallows the exception of the loop
PreloadStopSwallows ==
    /\ pc \in {"preload_stop", "preload_stop_exc"}
    /\ conns' = conns \ {"backfill_cons"}
    /\ pc' \in {"live_start_cons", "done"}
    /\ UNCHANGED <<now, histVars, readVars, trigVars, stripVars>>

\* lines 114-115: finally: await cons.stop(); then return to main, or re-raise.
\* A stop() that raises has torn its own client down.
PreloadStop ==
    /\ pc \in {"preload_stop", "preload_stop_exc"}
    /\ conns' = conns \ {"backfill_cons"}
    /\ \/ pc' = IF pc = "preload_stop" THEN "live_start_cons" ELSE "done"
       \/ pc' = "done"
    /\ UNCHANGED <<now, histVars, readVars, trigVars, stripVars>>

\* datetime.now() moves on between two evaluations of is_same_local_day
Tick ==
    /\ pc \in {"preload_getmany", "preload_batch", "live_next"}
    /\ now < MaxNow
    /\ now' = now + 1
    /\ UNCHANGED <<pc, conns, histVars, readVars, trigVars, stripVars>>

(***************************************************************************)
(* consume_and_process.                                                    *)
(***************************************************************************)
\* lines 119, 122: cons.start() returns, or raises outside the try
LiveStartConsumer ==
    /\ pc = "live_start_cons"
    /\ \/ pc' = "live_start_prod" /\ conns' = conns \cup {"live_cons"}
       \/ pc' = "done" /\ conns' = conns
    /\ UNCHANGED <<now, histVars, readVars, trigVars, stripVars>>

\* lines 120, 123: prod.start() returns, or raises outside the try
LiveStartProducer ==
    /\ pc = "live_start_prod"
    /\ \/ pc' = "live_next" /\ conns' = conns \cup {"prod"}
       \/ pc' = "done" /\ conns' = conns
    /\ UNCHANGED <<now, histVars, readVars, trigVars, stripVars>>

\* lines 147-150
CleanBatch(batch) == [j \in 1..Len(batch) |-> StripMention(batch[j])]

\* faulty variant: a text with the marker is handed to the trigger without
\* being admitted
AfterAdmissionSkipsMention(h, m, clock) ==
    IF is_same_local_day(m.timestamp, clock) /\ ~Contains(BOT_MENTION, TextOf(m.value).s)
    THEN Admit(h, UserIdOf(m.value), TextOf(m.value).s)
    ELSE h

\* lines 141-142: the history after the admission step for a valid record
AfterAdmission(h, m, clock) ==
    IF is_same_local_day(m.timestamp, clock)
    THEN Admit(h, UserIdOf(m.value), TextOf(m.value).s)
    ELSE h

\* faulty variant: the marker is looked for at the start of the text only
TriggersAtStart(m) == OccursAt(BOT_MENTION, TextOf(m.value).s, 1)

\* line 145
Triggers(m) == Contains(BOT_MENTION, TextOf(m.value).s)

\* faulty variant: the next record is taken while a trigger awaits its calls
\* or its acknowledgment
LiveRecordWhileAwaiting(M, maxrec) ==
    /\ pc \in {"live_next", "gather", "publish"}
    /\ consumed < maxrec
    /\ \E m \in M :
         LET o == LiveOutcome(m)
             u == UserIdOf(m.value)
             h1 == AfterAdmission(user_history, m, now)
             h2 == Touch(h1, u)
         IN /\ consumed' = consumed + 1
            /\ last' = [msg |-> m, at |-> now, phase |-> "live"]
            /\ IF o = "valid"
               THEN /\ admitted' = IF is_same_local_day(m.timestamp, now)
                                   THEN Record(admitted, u, TextOf(m.value).s)
                                   ELSE admitted
                    /\ IF Triggers(m)
                       THEN /\ user_history' = h2
                            /\ cur' = [user_id |-> u, batch |-> h2[u],
                                       clean_batch |-> CleanBatch(h2[u]),
                                       trig |-> consumed + 1]
                            /\ calls' = [j \in 1..Len(h2[u]) |-> Pending]
                            /\ outcome' = [t \in DOMAIN outcome \cup {consumed + 1} |->
                                              IF t = consumed + 1 THEN "running" ELSE outcome[t]]
                            /\ pc' = "gather"
                       ELSE /\ user_history' = h1
                            /\ UNCHANGED <<cur, calls, outcome, pc>>
               ELSE /\ pc' = IF o = "raise" THEN "live_stop_cons" ELSE pc
                    /\ UNCHANGED <<histVars, cur, calls, outcome>>
    /\ UNCHANGED <<conns, now, batch_q, preload_done, orphans, sent, acked, stripVars>>

\* lines 126-153: one iteration of `async for msg in cons`, up to its first
\* await (the gather) or to the end of the iteration
LiveRecord(M, maxrec) ==
    /\ pc = "live_next"
    /\ consumed < maxrec
    /\ \E m \in M :
         LET o == LiveOutcome(m)
             u == UserIdOf(m.value)
             h1 == AfterAdmission(user_history, m, now)
             h2 == Touch(h1, u)
         IN /\ consumed' = consumed + 1
            /\ last' = [msg |-> m, at |-> now, phase |-> "live"]
            /\ IF o = "valid"
               THEN /\ admitted' = IF is_same_local_day(m.timestamp, now)
                                   THEN Record(admitted, u, TextOf(m.value).s)
                                   ELSE admitted
                    /\ IF Triggers(m)
                       THEN /\ user_history' = h2
                            /\ cur' = [user_id |-> u, batch |-> h2[u],
                                       clean_batch |-> CleanBatch(h2[u]),
                                       trig |-> consumed + 1]
                            /\ calls' = [j \in 1..Len(h2[u]) |-> Pending]
                            /\ outcome' = [t \in DOMAIN outcome \cup {consumed + 1} |->
                                              IF t = consumed + 1 THEN "running" ELSE outcome[t]]
                            /\ pc' = "gather"
                       ELSE /\ user_history' = h1
                            /\ UNCHANGED <<cur, calls, outcome, pc>>
               ELSE /\ pc' = IF o = "raise" THEN "live_stop_cons" ELSE pc
                    /\ UNCHANGED <<histVars, cur, calls, outcome>>
    /\ UNCHANGED <<conns, now, batch_q, preload_done, orphans, sent, acked, stripVars>>

\* line 126: the consumer raises (connection lost), or the task is cancelled
\* (shutdown) while it awaits the next record, the gather or the publish; a
\* cancelled gather cancels its calls.  A gather of no call is a finished
\* future: awaiting it does not suspend, so nothing can arrive there.
LiveAwaitError ==
    /\ pc \in {"live_next", "gather", "publish"}
    /\ pc = "gather" => calls # <<>>
    /\ pc' = "live_stop_cons"
    /\ calls' = IF pc = "gather" THEN <<>> ELSE calls
    /\ UNCHANGED <<conns, now, histVars, readVars, cur, orphans, outcome, sent, acked, stripVars>>

PendingCalls == {j \in 1..Len(calls) : calls[j].st = "pending"}

\* lines 70-79: one call_predict of the running trigger returns its ScoreMap
CallReturn ==
    /\ pc = "gather"
    /\ \E j \in PendingCalls, r \in ScoreMaps :
         calls' = [calls EXCEPT ![j] = Done(r)]
    /\ UNCHANGED <<pc, conns, now, histVars, readVars, cur, orphans, outcome, sent, acked, stripVars>>

\* faulty variant: the failure of a call leaves the loop
AfterCallRaiseLeaves == "live_stop_cons"

\* what the except clause of lines 154-156 does with the trigger: continue
AfterCallRaise == "live_next"

\* lines 153-156: one call_predict raises; gather(return_exceptions=False)
\* re-raises it at once and leaves the sibling tasks running; the handler
\* prints and continues with the next record
CallRaise ==
    /\ pc = "gather"
    /\ \E j \in PendingCalls :
         orphans' = orphans \cup {[trig |-> cur.trig, idx |-> k] : k \in PendingCalls \ {j}}
    /\ outcome' = [outcome EXCEPT ![cur.trig] = "abandoned"]
    /\ pc' = AfterCallRaise
    /\ calls' = <<>>
    /\ cur' = NoCur
    /\ UNCHANGED <<conns, now, histVars, readVars, sent, acked, stripVars>>

\* faulty variant: the results are kept in one list shared by all triggers, so
\* a late call of an abandoned trigger fills the slot of the running one
OrphanCompleteShared ==
    /\ orphans # {}
    /\ pc # "done"
    /\ \E o \in orphans, r \in ScoreMaps :
         /\ orphans' = orphans \ {o}
         /\ calls' = IF o.idx \in DOMAIN calls
                      THEN [calls EXCEPT ![o.idx] = Done(r)]
                      ELSE calls
    /\ UNCHANGED <<pc, conns, now, histVars, readVars, cur, outcome, sent, acked, stripVars>>

\* a call_predict task of an abandoned trigger ends; nobody awaits its result
OrphanComplete ==
    /\ orphans # {}
    /\ pc # "done"
    /\ \E o \in orphans : orphans' = orphans \ {o}
    /\ UNCHANGED <<pc, conns, now, histVars, readVars, cur, calls, outcome, sent, acked, stripVars>>

Results == [j \in 1..Len(calls) |-> calls[j].r]

\* faulty variant: a trigger without calls publishes nothing
GatherReturnSkipsEmpty ==
    /\ pc = "gather"
    /\ PendingCalls = {}
    /\ IF calls = <<>>
       THEN /\ pc' = "live_next"
            /\ UNCHANGED <<sent, outcome>>
       ELSE /\ sent' = Append(sent, [trig |-> cur.trig,
                                     payload |-> OutputRecord(Results, cur.user_id)])
            /\ outcome' = [outcome EXCEPT ![cur.trig] = "gathered"]
            /\ pc' = "publish"
    /\ UNCHANGED <<conns, now, histVars, readVars, cur, calls, orphans, acked, stripVars>>

\* lines 153, 157-162: every call returned (at once when there is none);
\* the aggregate is built and handed to prod.send_and_wait
GatherReturn ==
    /\ pc = "gather"
    /\ PendingCalls = {}
    /\ sent' = Append(sent, [trig |-> cur.trig, payload |-> OutputRecord(Results, cur.user_id)])
    /\ outcome' = [outcome EXCEPT ![cur.trig] = "gathered"]
    /\ pc' = "publish"
    /\ UNCHANGED <<conns, now, histVars, readVars, cur, calls, orphans, acked, stripVars>>

\* faulty variant: the window of the user is cleared once its texts are scored
PublishAckClears ==
    /\ pc = "publish"
    /\ acked' = acked + 1
    /\ pc' = "live_next"
    /\ calls' = <<>>
    /\ cur' = NoCur
    /\ user_history' = [user_history EXCEPT ![cur.user_id] = <<>>]
    /\ UNCHANGED <<conns, now, admitted, readVars, orphans, outcome, sent, stripVars>>

\* line 162-163: the delivery is acknowledged; next iteration
PublishAck ==
    /\ pc = "publish"
    /\ acked' = acked + 1
    /\ pc' = "live_next"
    /\ calls' = <<>>
    /\ cur' = NoCur
    /\ UNCHANGED <<conns, now, histVars, readVars, orphans, outcome, sent, stripVars>>

\* faulty variant: the publish failure is handled like a failed call
AfterPublishFailContinues == "live_next"

\* where an exception of send_and_wait goes: it is raised outside the inner
\* try, so it leaves the loop through the finally
AfterPublishFail == "live_stop_cons"

\* line 162: send_and_wait raises (no acknowledgment)
PublishFail ==
    /\ pc = "publish"
    /\ pc' = AfterPublishFail
    /\ UNCHANGED <<conns, now, histVars, readVars, trigVars, stripVars>>

\* lines 165-166: finally: await cons.stop(); when it raises, prod.stop() is
\* not reached.  A stop() that raises has torn its own client down.
LiveStopConsumer ==
    /\ pc = "live_stop_cons"
    /\ conns' = conns \ {"live_cons"}
    /\ pc' \in {"live_stop_prod", "done"}
    /\ UNCHANGED <<now, histVars, readVars, trigVars, stripVars>>

\* line 167: await prod.stop(); the exception, if any, goes on to main
LiveStopProducer ==
    /\ pc = "live_stop_prod"
    /\ conns' = conns \ {"prod"}
    /\ pc' = "done"
    /\ UNCHANGED <<now, histVars, readVars, trigVars, stripVars>>

(***************************************************************************)
(* Specifications.                                                         *)
(***************************************************************************)
Next ==
    \/ GetConnectionInfo
    \/ PreloadStart
    \/ PreloadGetmany(MaxRecords)
    \/ PreloadGetmanyError
    \/ PreloadRecord(Msgs)
    \/ PreloadStop
    \/ Tick
    \/ LiveStartConsumer
    \/ LiveStartProducer
    \/ LiveRecord(Msgs, MaxRecords)
    \/ LiveAwaitError
    \/ CallReturn
    \/ CallRaise
    \/ OrphanComplete
    \/ GatherReturn
    \/ PublishAck
    \/ PublishFail
    \/ LiveStopConsumer
    \/ LiveStopProducer

Spec == Init /\ [][Next]_vars

\* the trigger pipeline: the same program on well-formed records of one user
NextTrig ==
    \/ GetConnectionInfo
    \/ PreloadStart
    \/ PreloadGetmany(MaxTrigRecords)
    \/ PreloadGetmanyError
    \/ PreloadRecord(TrigMsgs)
    \/ PreloadStop
    \/ Tick
    \/ LiveStartConsumer
    \/ LiveStartProducer
    \/ LiveRecord(TrigMsgs, MaxTrigRecords)
    \/ LiveAwaitError
    \/ CallReturn
    \/ CallRaise
    \/ OrphanComplete
    \/ GatherReturn
    \/ PublishAck
    \/ PublishFail
    \/ LiveStopConsumer
    \/ LiveStopProducer

SpecTrig == Init /\ [][NextTrig]_vars

\* triggers on a window that fills up: well-formed records of one user; the
\* run is shut down while its first trigger with calls awaits them
NextSnap ==
    \/ GetConnectionInfo
    \/ PreloadStart
    \/ PreloadGetmany(MaxSnapRecords)
    \/ PreloadRecord(TrigMsgs)
    \/ PreloadStop
    \/ LiveStartConsumer
    \/ LiveStartProducer
    \/ LiveRecord(TrigMsgs, MaxSnapRecords)
    \/ LiveAwaitError
    \/ LiveStopConsumer
    \/ LiveStopProducer

SpecSnap == Init /\ [][NextSnap]_vars

\* the start-up and the backfill alone.  cons.stop() in the finally block is
\* awaited by the event loop once the loop has been left, so it is taken
\* eventually; it may still raise.
NextPreload ==
    \/ GetConnectionInfo
    \/ PreloadStart
    \/ PreloadGetmany(MaxPreloadRecords)
    \/ PreloadGetmanyError
    \/ PreloadRecord(Msgs)
    \/ PreloadStop
    \/ Tick

SpecPreload == Init /\ [][NextPreload]_vars /\ WF_vars(PreloadStop)

\* the fan-out of triggers: the backfill fills the window of one user, then
\* stale mentions of that user arrive and a call of each trigger fails
NextFan ==
    \/ GetConnectionInfo
    \/ PreloadStart
    \/ PreloadGetmany(MaxFanRecords)
    \/ PreloadRecord(FanBackfillMsgs)
    \/ PreloadStop
    \/ LiveStartConsumer
    \/ LiveStartProducer
    \/ LiveRecord(FanLiveMsgs, MaxFanRecords)
    \/ CallRaise

SpecFan == Init /\ [][NextFan]_vars

\* the history window alone: well-formed records of two users, no trigger
NextWindow ==
    \/ GetConnectionInfo
    \/ PreloadStart
    \/ PreloadGetmany(MaxWindowRecords)
    \/ PreloadRecord(WindowMsgs)
    \/ PreloadStop
    \/ LiveStartConsumer
    \/ LiveStartProducer
    \/ LiveRecord(WindowMsgs, MaxWindowRecords)

SpecWindow == Init /\ [][NextWindow]_vars

\* the mention strip as a pure function of one text
AllTexts == SeqsUpTo(Alphabet, MaxLen)

InitStrip ==
    /\ pc = "init"
    /\ conns = {}
    /\ now = StartNow
    /\ user_history = <<>>
    /\ admitted = <<>>
    /\ consumed = 0
    /\ batch_q = 0
    /\ last = NoLast
    /\ preload_done = FALSE
    /\ cur = NoCur
    /\ calls = <<>>
    /\ orphans = {}
    /\ outcome = <<>>
    /\ sent = <<>>
    /\ acked = 0
    /\ strip_in \in AllTexts
    /\ strip_out = PyNone

\* line 149 applied to strip_in
ApplyStrip ==
    /\ strip_out = PyNone
    /\ strip_out' = StripMention(strip_in)
    /\ UNCHANGED <<pc, conns, now, histVars, readVars, trigVars, strip_in>>

NextStrip == ApplyStrip

SpecStrip == InitStrip /\ [][NextStrip]_vars

(***************************************************************************)
(* Properties.                                                             *)
(***************************************************************************)
LastN(a, k) == SubSeq(a, Len(a) - k + 1, Len(a))
Min(a, b) == IF a <= b THEN a ELSE b

\* C1: every user's window holds at most 10 texts and equals the last
\* min(n, 10) of the n texts admitted for that user, oldest first (so an
\* admission to a full window evicts exactly the oldest entry).
C1_WindowIsLastTen ==
    /\ DOMAIN user_history = DOMAIN admitted
    /\ \A u \in DOMAIN user_history :
         /\ Len(user_history[u]) <= 10
         /\ user_history[u] = LastN(admitted[u], Min(Len(admitted[u]), 10))

\* an eleventh text was admitted in the live phase to a full window
C1_Witness ==
    \E u \in DOMAIN user_history :
        /\ Len(admitted[u]) > 10
        /\ Len(user_history[u]) = 10
        /\ last.phase = "live"
        /\ preload_done
        /\ user_history[u][1] # user_history[u][10]

\* the records C2 is about: a parsed object whose chat_id is not watched, or
\* whose user_id is missing, or whose message is present and not a string
C2_Rejectable(m) ==
    /\ m.value.kind = "object"
    /\ \/ ~(m.value.chat_id.t = "int" /\ m.value.chat_id.i \in WATCH_CHAT_IDS)
       \/ m.value.user_id.t \in {"absent", "null"}
       \/ m.value.message.t \notin {"str", "absent"}

\* C2: in both phases, processing a record whose chat_id is not watched, whose
\* user_id is missing or whose message is not a string leaves every window,
\* and the set of users that have one, as it was.
C2_RejectedNeverAdmitted ==
    [][(consumed' = consumed + 1 /\ C2_Rejectable(last'.msg))
          => user_history' = user_history]_vars

\* the records C3 is about: a parsed object from a watched chat whose message
\* is a string that contains the marker
C3_WatchedMention(m) ==
    /\ m.value.kind = "object"
    /\ m.value.chat_id.t = "int" /\ m.value.chat_id.i \in WATCH_CHAT_IDS
    /\ m.value.message.t = "str"
    /\ \E i \in 1..Len(m.value.message.s) : OccursAt(BOT_MENTION, m.value.message.s, i)

\* C3: a live record from a watched chat whose text contains the marker
\* anywhere starts the trigger pipeline for its user, also when its timestamp
\* is not of the local day; then no text is admitted to any window.
C3_TriggerDespiteStaleDay ==
    [][(consumed' = consumed + 1 /\ last'.phase = "live" /\ C3_WatchedMention(last'.msg))
          => /\ pc' = "gather"
             /\ cur'.trig = consumed'
             /\ cur'.user_id = PyStr(last'.msg.value.user_id)
             /\ outcome'[consumed'] = "running"
             /\ LocalDay(last'.msg.timestamp) # LocalDay(now)
                   => /\ admitted' = admitted
                      /\ \A u \in DOMAIN user_history' :
                            user_history'[u] = Window(user_history, u)]_vars

\* a trigger is running for a record of yesterday that was not admitted
C3_Witness ==
    /\ pc = "gather"
    /\ last.phase = "live"
    /\ cur.trig = consumed
    /\ LocalDay(last.msg.timestamp) # LocalDay(last.at)
    /\ cur.batch = <<>>
    /\ admitted = <<>>

SentFor(t) == {i \in 1..Len(sent) : sent[i].trig = t}

\* C4: when one of the concurrent calls of a trigger fails, nothing is, or
\* ever will be, published for that trigger, and the live loop goes on to
\* await the next record.
C4_AllOrNothing ==
    [][/\ \A t \in DOMAIN outcome' : outcome'[t] = "abandoned" => SentFor(t)' = {}
       /\ \A t \in DOMAIN outcome' :
            (outcome'[t] = "abandoned" /\ (t \notin DOMAIN outcome \/ outcome[t] # "abandoned"))
               => pc = "gather" /\ pc' = "live_next" /\ sent' = sent]_vars

\* a trigger with several calls was abandoned and a later record was consumed
C4_Witness ==
    \E t \in DOMAIN outcome :
        /\ outcome[t] = "abandoned"
        /\ consumed > t
        /\ \E o \in orphans : o.trig = t
        /\ last.phase = "live"

RECURSIVE SumField(_, _)
SumField(results, k) ==
    IF results = <<>> THEN 0
    ELSE (IF \E j \in 1..Len(Head(results)) : Head(results)[j][1] = k
          THEN Head(results)[CHOOSE j \in 1..Len(Head(results)) : Head(results)[j][1] = k][2]
          ELSE 0) + SumField(Tail(results), k)

\* C5: when every call of a trigger returned, exactly one record is handed to
\* the producer for that trigger; its fields are the union of the field names
\* of the ScoreMaps, each with the sum of its values, and its user_id is the
\* triggering user's.
C5_OneSummedRecord ==
    /\ \A t \in DOMAIN outcome :
         outcome[t] = "gathered" => Cardinality(SentFor(t)) = 1
    /\ pc = "publish" =>
         LET out == sent[Len(sent)].payload
             names == UNION {{Results[i][j][1] : j \in 1..Len(Results[i])} : i \in 1..Len(Results)}
         IN /\ PendingCalls = {}
            /\ sent[Len(sent)].trig = cur.trig
            /\ outcome[cur.trig] = "gathered"
            /\ out.user_id = cur.user_id
            /\ {out.fields[j][1] : j \in 1..Len(out.fields)} = names
            /\ Len(out.fields) = Cardinality(names)
            /\ \A j \in 1..Len(out.fields) :
                  out.fields[j][2] = SumField(Results, out.fields[j][1])

\* the example of the specification: {pos:1,neu:2} and {pos:3,energy:5}
C5_Witness ==
    /\ pc = "publish"
    /\ Results = <<SM_A, SM_B>>
    /\ sent[Len(sent)].payload.fields = << <<"pos", 4>>, <<"neu", 2>>, <<"energy", 5>> >>
    /\ sent[Len(sent)].payload.user_id = <<"4", "2">>

\* C6: whatever the payload of a record, processing it ends neither the
\* backfill loop nor the live loop.
C6_RecordErrorsContained ==
    [][consumed' = consumed + 1
          => pc' \notin {"preload_stop", "preload_stop_exc", "live_stop_cons",
                         "live_stop_prod", "done"}]_vars

Chain == {<<"INIT", "BACKFILL">>, <<"BACKFILL", "LIVE">>, <<"LIVE", "STOPPED">>}
FailureExits == {<<"INIT", "STOPPED">>, <<"BACKFILL", "STOPPED">>}

\* the lifecycle with `allowed` as its phase changes: LIVE is entered only
\* from a backfill that ran to its empty batch, with the windows it left;
\* before that no live record is consumed, no trigger fires, nothing is sent
C7_Order(allowed) ==
    /\ Phase' # Phase => <<Phase, Phase'>> \in allowed
    /\ (Phase = "BACKFILL" /\ Phase' = "LIVE")
          => preload_done /\ batch_q = 0 /\ user_history' = user_history
    /\ pc \in {"live_start_cons", "live_start_prod"} => user_history' = user_history
    /\ Phase' \in {"INIT", "BACKFILL"}
          => last'.phase # "live" /\ outcome' = <<>> /\ sent' = <<>> /\ calls' = <<>>
    /\ (last'.phase = "live" \/ outcome' # <<>> \/ sent' # <<>>) => preload_done'

\* C7 (as stated): the only phase changes are INIT -> BACKFILL -> LIVE ->
\* STOPPED; nothing of the live phase happens before the backfill completed,
\* and the live phase continues on the windows the backfill populated.
C7_StrictChain == [][C7_Order(Chain)]_vars

\* C7 (amended): as above, with the failure exits INIT -> STOPPED and
\* BACKFILL -> STOPPED as further phase changes.
C7_Lifecycle == [][C7_Order(Chain \cup FailureExits)]_vars

\* a trigger of the live phase runs on a window that the backfill populated
C7_Witness ==
    /\ pc = "gather"
    /\ preload_done
    /\ consumed = 2
    /\ last.phase = "live"
    /\ Len(cur.batch) = 2

\* C8: when the process has stopped, by whatever path, no started Kafka
\* client is left unstopped.
C8_AllReleased == pc = "done" => conns = {}

\* a record was handed to the producer and its publish ended without an
\* acknowledgment
C9_NotAcked == acked < Len(sent) /\ pc # "publish"

\* C9: a publish that is not acknowledged leaves the live loop through the
\* finally block (it is not handled like a failed call); afterwards no record
\* is consumed or admitted and nothing is sent, and the process only moves on
\* towards STOPPED.
C9_PublishFailureEndsLive ==
    [][/\ (pc = "publish" /\ pc' # "publish" /\ acked' = acked) => pc' = "live_stop_cons"
       /\ C9_NotAcked =>
            /\ consumed' = consumed
            /\ user_history' = user_history
            /\ admitted' = admitted
            /\ sent' = sent
            /\ pc = "live_stop_cons" => pc' \in {"live_stop_cons", "live_stop_prod", "done"}
            /\ pc = "live_stop_prod" => pc' \in {"live_stop_prod", "done"}
            /\ pc \in {"live_stop_cons", "live_stop_prod", "done"}]_vars

\* the process stopped after an unacknowledged publish although the source
\* had more records
C9_Witness ==
    /\ pc = "done"
    /\ acked < Len(sent)
    /\ consumed < MaxRecords
    /\ conns = {}

IsPrefix(p, s) == Len(p) <= Len(s) /\ \A j \in 1..Len(p) : s[j] = p[j]

\* C10: the strip removes the marker and the whole run of whitespace after it
\* when, and only when, the text starts with the marker; what follows (a
\* second marker included) is kept, and any other text is left as it is.
C10_StripAnchored ==
    strip_out # PyNone =>
        IF IsPrefix(BOT_MENTION, strip_in)
        THEN \E k \in 0..(Len(strip_in) - Len(BOT_MENTION)) :
                /\ \A j \in 1..k : strip_in[Len(BOT_MENTION) + j] \in Whitespace
                /\ strip_out = SubSeq(strip_in, Len(BOT_MENTION) + k + 1, Len(strip_in))
                /\ strip_out = <<>> \/ strip_out[1] \notin Whitespace
        ELSE strip_out = strip_in

\* "@b @b" became "@b": one marker and the blank are gone, the second is kept
C10_Witness ==
    /\ strip_in = <<"@", "b", " ", "@", "b">>
    /\ strip_out = <<"@", "b">>

\* the records C11 is about: a parsed object of a watched chat with a user_id
\* and a string as message
C11_Passes(m) ==
    /\ m.value.kind = "object"
    /\ m.value.chat_id.t = "int" /\ m.value.chat_id.i \in WATCH_CHAT_IDS
    /\ m.value.user_id.t \in {"int", "str"}
    /\ m.value.message.t = "str"

\* C11: in both phases a record that passes the chat/user/text filter is
\* appended to its user's window exactly when its own timestamp is of the
\* local day of the moment it is evaluated, whatever was processed before it.
C11_DayIndependence ==
    [][(consumed' = consumed + 1 /\ C11_Passes(last'.msg))
          => LET u == PyStr(last'.msg.value.user_id)
                 t == last'.msg.value.message.s
                 w == Window(user_history, u)
             IN IF LocalDay(last'.msg.timestamp) = LocalDay(last'.at)
                THEN /\ Window(user_history', u) =
                           Append(IF Len(w) = 10 THEN Tail(w) ELSE w, t)
                     /\ Window(admitted', u) = Append(Window(admitted, u), t)
                ELSE /\ Window(user_history', u) = w
                     /\ admitted' = admitted]_vars

\* the same text of the same user was admitted with a timestamp of today and
\* then rejected with a timestamp of another day
C11_Witness ==
    /\ consumed = 2
    /\ C11_Passes(last.msg)
    /\ LocalDay(last.msg.timestamp) # LocalDay(last.at)
    /\ DOMAIN admitted = {PyStr(last.msg.value.user_id)}
    /\ admitted[PyStr(last.msg.value.user_id)] = <<last.msg.value.message.s>>

\* C12: the admission step comes before the trigger: the snapshot of a
\* trigger is the user's window before the record, with the record's text as
\* its newest element (the oldest one evicted when the window was full) when
\* the record is of the local day, and that window as it was otherwise.
C12_AdmitThenSnapshot ==
    [][(pc = "live_next" /\ pc' = "gather")
          => LET u == PyStr(last'.msg.value.user_id)
                 t == last'.msg.value.message.s
                 w == Window(user_history, u)
             IN /\ cur'.user_id = u
                /\ cur'.batch =
                      IF LocalDay(last'.msg.timestamp) = LocalDay(last'.at)
                      THEN Append(IF Len(w) = 10 THEN Tail(w) ELSE w, t)
                      ELSE w
                /\ cur'.batch = user_history'[u]]_vars

\* a trigger of today on a full window: the oldest text went, the triggering
\* text is the newest of the snapshot
C12_Witness ==
    /\ pc = "gather"
    /\ cur.user_id \in DOMAIN admitted
    /\ Len(admitted[cur.user_id]) = 11
    /\ Len(cur.batch) = 10
    /\ cur.batch[10] = last.msg.value.message.s
    /\ cur.batch[1] = admitted[cur.user_id][2]
    /\ cur.batch[1] # admitted[cur.user_id][1]
    /\ LocalDay(last.msg.timestamp) = LocalDay(last.at)

\* a trigger of yesterday: the snapshot is the window without the text
C12_WitnessStale ==
    /\ pc = "gather"
    /\ LocalDay(last.msg.timestamp) # LocalDay(last.at)
    /\ Len(cur.batch) = 10
    /\ cur.user_id \in DOMAIN admitted
    /\ cur.batch = LastN(admitted[cur.user_id], 10)

\* C13: the backfill ends exactly at the first read that returns nothing:
\* the empty read is seen only when every record of the earlier reads has
\* been through the loop body, nothing is read or evaluated after it, the
\* live phase is entered only after it, and once it is seen the phase ends:
\* LIVE begins, or the process stops because cons.stop() raised.
C13_EmptyReadEndsBackfill ==
    /\ [](preload_done /\ Phase = "BACKFILL" => pc = "preload_stop" /\ batch_q = 0)
    /\ [][/\ (~preload_done /\ preload_done')
               => pc = "preload_getmany" /\ batch_q = 0 /\ batch_q' = 0
          /\ (preload_done /\ Phase = "BACKFILL")
               => consumed' = consumed /\ histVars' = histVars
          /\ (Phase = "BACKFILL" /\ Phase' = "LIVE") => preload_done]_vars
    /\ (preload_done ~> Phase \in {"LIVE", "STOPPED"})

\* C13 as stated: once the empty read is seen, LIVE begins
C13_EmptyReadLeadsToLive == preload_done ~> Phase = "LIVE"

\* the backfill read two records, saw the empty read and handed over to LIVE
C13_Witness ==
    /\ Phase = "LIVE"
    /\ preload_done
    /\ consumed = MaxPreloadRecords
    /\ last.phase = "preload"

\* C14: while a trigger awaits its calls or the acknowledgment of its output
\* record, no record is consumed, no window and no admission changes, and
\* the snapshot, its stripped copy and its owner stay what they were at
\* trigger time for as long as the trigger lasts.
C14_SuspendedTriggerIsAlone ==
    [][(pc = "gather" \/ pc = "publish")
          => /\ consumed' = consumed
             /\ last' = last
             /\ user_history' = user_history
             /\ admitted' = admitted
             /\ (pc' \in {"gather", "publish"} => cur' = cur)]_vars

\* a trigger with a non-empty snapshot awaits its acknowledgment while the
\* source has more records to deliver
C14_Witness ==
    /\ pc = "publish"
    /\ acked < Len(sent)
    /\ cur.batch # <<>>
    /\ consumed < MaxTrigRecords

Abandoned(f) == {t \in DOMAIN f : f[t] = "abandoned"}

\* C15: when a call of a trigger fails the pipeline goes on with the next
\* record at once, without its sibling calls; a sibling that ends later
\* changes nothing but the set of calls in flight; and an output record is
\* built from the results of the calls of its own trigger, all returned.
C15_OrphansAreInert ==
    [][/\ (Abandoned(outcome') # Abandoned(outcome))
            => /\ Abandoned(outcome') = Abandoned(outcome) \cup {cur.trig}
               /\ pc = "gather" /\ pc' = "live_next"
               /\ calls' = <<>>
               /\ \A o \in orphans' \ orphans : o.trig = cur.trig
               /\ sent' = sent
       /\ (orphans' # orphans /\ orphans' \subseteq orphans)
            => /\ calls' = calls /\ cur' = cur /\ pc' = pc
               /\ sent' = sent /\ acked' = acked /\ outcome' = outcome
               /\ user_history' = user_history
       /\ (sent' # sent)
            => /\ PendingCalls = {}
               /\ Len(calls) = Len(cur.batch)
               /\ outcome[cur.trig] = "running"
               /\ \A o \in orphans : o.trig # cur.trig
               /\ sent' = Append(sent, [trig |-> cur.trig,
                                        payload |-> OutputRecord(Results, cur.user_id)])]_vars

\* a later trigger got all its results and published while a call of an
\* abandoned earlier trigger is still in flight
C15_Witness ==
    /\ pc = "publish"
    /\ cur.batch # <<>>
    /\ \E o \in orphans : o.trig < cur.trig /\ outcome[o.trig] = "abandoned"

\* the records C16 is about: a parsed object without chat_id, user_id or
\* message
C16_MissingField(m) ==
    /\ m.value.kind = "object"
    /\ "absent" \in {m.value.chat_id.t, m.value.user_id.t, m.value.message.t}

\* C16: in both phases a parsed record without chat_id, user_id or message is
\* skipped: no window gets a text or comes into being, and no trigger starts.
C16_MissingFieldSkipped ==
    [][(consumed' = consumed + 1 /\ C16_MissingField(last'.msg))
          => /\ user_history' = user_history
             /\ admitted' = admitted
             /\ pc' \notin {"gather", "publish"}
             /\ cur' = cur]_vars

InFlight(t) == {o \in orphans : o.trig = t}

\* C17: a trigger issues one call per text of its snapshot, which is the
\* window of its user: the calls of one trigger, awaited or left behind, are
\* never more than 10.
C17_OneCallPerText ==
    /\ pc = "gather"
         => /\ Len(calls) = Len(cur.batch)
            /\ Len(calls) = Len(cur.clean_batch)
            /\ cur.batch = Window(user_history, cur.user_id)
            /\ Len(calls) <= 10
            /\ InFlight(cur.trig) = {}
    /\ \A t \in DOMAIN outcome : Cardinality(InFlight(t)) < 10

\* ten calls of the running trigger and calls of an abandoned one are in
\* flight together: more than 10 calls in all
C17_Witness ==
    /\ pc = "gather"
    /\ Cardinality(PendingCalls) = 10
    /\ \E o \in orphans : o.trig # cur.trig
    /\ Cardinality(orphans) + Cardinality(PendingCalls) > 10

\* C18: the trigger pipeline leaves the history as it is.  Taking the
\* snapshot changes the text of no window; from then on, through the calls,
\* the publish and every way the trigger can end (published, abandoned,
\* transport failure, shutdown), no window changes, and while the trigger
\* lasts the window of its user is the snapshot, not the stripped copy.
C18_TriggerKeepsHistory ==
    /\ [](pc \in {"gather", "publish"}
             => /\ cur.user_id \in DOMAIN user_history
                /\ user_history[cur.user_id] = cur.batch)
    /\ [][/\ (pc = "gather" \/ pc = "publish") => user_history' = user_history
          /\ (pc = "live_next" /\ pc' = "gather")
               => \A u \in DOMAIN user_history \cup DOMAIN user_history' :
                     LET w == Append(Window(user_history, u), last'.msg.value.message.s)
                     IN Window(user_history', u) =
                           IF u = cur'.user_id
                              /\ LocalDay(last'.msg.timestamp) = LocalDay(last'.at)
                           THEN IF Len(w) > 10 THEN Tail(w) ELSE w
                           ELSE Window(user_history, u)]_vars

\* the user's previous record was a trigger that is over; this stale mention
\* starts the next one on the same window, whose texts still carry the marker
\* that the earlier trigger stripped from its copy
C18_Witness ==
    /\ pc = "gather"
    /\ cur.trig - 1 \in DOMAIN outcome
    /\ outcome[cur.trig - 1] \in {"gathered", "abandoned"}
    /\ LocalDay(last.msg.timestamp) # LocalDay(last.at)
    /\ cur.clean_batch # cur.batch
    /\ user_history[cur.user_id] = cur.batch

\* C19: a trigger with an empty snapshot has no call; the step it takes is
\* to hand the producer one record for it, made of the user_id alone, and
\* while that record awaits its acknowledgment nothing else is handed over.
C19_EmptySnapshotPublishes ==
    /\ [](pc = "gather" /\ cur.batch = <<>> => calls = <<>>)
    /\ [][/\ (pc = "gather" /\ cur.batch = <<>> /\ orphans' = orphans)
               => /\ pc' = "publish"
                  /\ sent' = Append(sent, [trig |-> cur.trig,
                                           payload |-> [user_id |-> cur.user_id,
                                                        fields |-> <<>>]])
          /\ (pc = "publish" /\ cur.batch = <<>>) => sent' = sent]_vars

\* a stale mention of a user without texts: its record, with the user_id
\* alone, is with the producer
C19_Witness ==
    /\ pc = "publish"
    /\ cur.batch = <<>>
    /\ LocalDay(last.msg.timestamp) # LocalDay(last.at)
    /\ Cardinality(SentFor(cur.trig)) = 1
    /\ sent[Len(sent)] = [trig |-> consumed,
                          payload |-> [user_id |-> PyStr(last.msg.value.user_id),
                                       fields |-> <<>>]]

\* C20: the records handed to the producer are, one for one and in order,
\* the triggers whose calls all returned: a record is appended for the record
\* consumed last, which is a live record of a watched chat with the marker in
\* its text and has none yet; the trigger numbers of the output records grow
\* strictly; acknowledgments come one at a time for the newest record.
C20_OutputFollowsTriggers ==
    /\ [](/\ \A i, j \in 1..Len(sent) : i < j => sent[i].trig < sent[j].trig
          /\ \A i \in 1..Len(sent) :
                /\ sent[i].trig \in 1..consumed
                /\ sent[i].trig \in DOMAIN outcome
                /\ outcome[sent[i].trig] = "gathered"
          /\ \A t \in DOMAIN outcome :
                Cardinality(SentFor(t)) = IF outcome[t] = "gathered" THEN 1 ELSE 0
          /\ acked \in {Len(sent) - 1, Len(sent)} \cap Nat)
    /\ [][/\ (sent' # sent)
               => /\ Len(sent') = Len(sent) + 1
                  /\ SubSeq(sent', 1, Len(sent)) = sent
                  /\ sent'[Len(sent')].trig = consumed
                  /\ sent'[Len(sent')].payload.user_id = PyStr(last.msg.value.user_id)
                  /\ last.phase = "live"
                  /\ C3_WatchedMention(last.msg)
                  /\ consumed' = consumed
                  /\ acked = Len(sent)
          /\ (acked' # acked) => acked' = Len(sent) /\ sent' = sent]_vars

\* two live records were triggers, and both output records were acknowledged
\* in the order of the records
C20_Witness ==
    /\ Len(sent) = 2
    /\ acked = 2
    /\ sent[1].trig < sent[2].trig
    /\ pc = "live_next"

====
